---- MODULE Spec2Model ----
(***************************************************************************)
(* Precedent index store of the InLegalBERT + FAISS case analyzer.         *)
(*                                                                         *)
(* The persisted index is two files in one directory (precedent.index and  *)
(* meta.json).  They are read and written by the retrieval service         *)
(* (agent1_inlegal_faiss.py, one or more worker processes) and read by the *)
(* helper module (inlegalbert_helper.py) imported into the analyzer        *)
(* process.  Handlers are `async def` without awaits, so inside one        *)
(* process a handler runs to completion; processes interleave at file      *)
(* system calls, which are the steps of this model.                        *)
(***************************************************************************)
EXTENDS Integers, Sequences, FiniteSets, TLC

\* ------------------------------------------------------------------ bounds
\* add_precedent requests accepted past validation in one behaviour
MaxAdds == 2
\* longest persisted index / metadata list a search is started on (SpecSearch)
MaxLen == 2
\* largest embedding coordinate of the modelled texts
MaxCoord == 3

\* ------------------------------------------------------------ input domain
\* the worker processes of the retrieval service, and the analyzer process that
\* imports the helper module; all share the index directory
Workers == {"w1", "w2"}
Helper == "h"
Procs == Workers \cup {Helper}

\* the workers run one installation of the service: the module-level loading
\* block has the same outcome in each of them
Service == "svc"

NoId == "<none>"
Texts == {"ta", "tb"}
TextInputs == Texts \cup {""}
IdInputs == {"p1", NoId}
TopKInputs == {0, 1, 3, 101}
\* the helper's search_precedents validates nothing; the analyzer calls it with
\* top_k_precedents=5, a value inside 1..100
HelperTopK == {k \in TopKInputs : k >= 1 /\ k <= 100}
\* the requests that pass validation
ValidTopK == {k \in TopKInputs : k >= 1 /\ k <= 100}

\* two stored texts of 151 characters that differ in the last one only
LongTexts == {"la", "lb"}

\* the longest text shown whole
DisplayMax == 150

\* the characters of the modelled texts; "l..." is a displayed text
Chars(t) ==
    CASE t = "ta" -> << "t", "a" >>
      [] t = "tb" -> << "t", "b" >>
      [] t = "la" -> [ i \in 1 .. DisplayMax + 1 |-> IF i <= DisplayMax THEN "l" ELSE "a" ]
      [] t = "lb" -> [ i \in 1 .. DisplayMax + 1 |-> IF i <= DisplayMax THEN "l" ELSE "b" ]
      [] t = "l..." -> [ i \in 1 .. DisplayMax + 3 |-> IF i <= DisplayMax THEN "l" ELSE "." ]
      [] OTHER -> << >>

\* len(text) of the modelled texts
TextLen(t) == Len(Chars(t))

\* ---------------------------------------------------------------- encoder
\* embed_text is a pure function of the text once the models are loaded; the
\* 768-dimensional unit vector is abstracted to one integer coordinate.
EmbedVec(t) ==
    CASE t = "ta" -> 1 [] t = "tb" -> MaxCoord [] t \in LongTexts -> 2 [] OTHER -> 0

\* squared Euclidean distance of IndexFlatL2
L2Dist(a, b) == (a - b) * (a - b)

\* distance FAISS reports for a neighbour it could not find (label -1):
\* larger than every real distance
MissingDist == MaxCoord * MaxCoord + 1

\* token tagging: one (token, label_id) pair per token
NerOf(t) == << [token |-> t, label_id |-> 0] >>

\* the outcomes of the model-loading block: the tokenizer loads first, the
\* tagger may fail alone, a failing embedding model aborts the block
ModelOutcomes ==
    { [tok |-> FALSE, ner |-> FALSE, emb |-> FALSE],
      [tok |-> TRUE, ner |-> FALSE, emb |-> FALSE],
      [tok |-> TRUE, ner |-> TRUE, emb |-> FALSE],
      [tok |-> TRUE, ner |-> FALSE, emb |-> TRUE],
      [tok |-> TRUE, ner |-> TRUE, emb |-> TRUE] }

NoModels == [tok |-> FALSE, ner |-> FALSE, emb |-> FALSE]

\* ------------------------------------------------------------------ files
Absent == [st |-> "absent", data |-> << >>]
Partial == [st |-> "partial", data |-> << >>]
FileOf(d) == [st |-> "ok", data |-> d]

\* os.path.exists
Exists(f) == f.st # "absent"

\* -------------------------------------------------------- nearest neighbours
Min(a, b) == IF a < b THEN a ELSE b

\* a search that reports the first min(k, ntotal) vectors in stored order
\* instead of by distance
FaissSearchStoredOrder(vecs, q, k) ==
    LET n == Len(vecs)
        m == Min(k, n)
    IN  { [i \in 1..k |-> IF i <= m
                             THEN [dist |-> L2Dist(vecs[i], q), idx |-> i - 1]
                             ELSE [dist |-> MissingDist, idx |-> 0 - 1]] }

\* index.search(query, k) of an IndexFlatL2 holding vecs: every result FAISS may
\* return.  The min(k, ntotal) nearest vectors come first, closest first (equal
\* distances in either order); the remaining places are filled with label -1 and
\* the largest distance.  Labels are 0-based positions.
FaissSearch(vecs, q, k) ==
    LET n == Len(vecs)
        m == Min(k, n)
        d(j) == L2Dist(vecs[j], q)
        picks == { s \in [1..m -> 1..n] :
                     /\ \A i, j \in 1..m : i # j => s[i] # s[j]
                     /\ \A i \in 1..m : \A j \in 1..m : i < j => d(s[i]) <= d(s[j])
                     /\ \A j \in 1..n :
                          (\A i \in 1..m : s[i] # j) => \A i \in 1..m : d(s[i]) <= d(j) }
    IN  { [i \in 1..k |-> IF i <= m
                             THEN [dist |-> d(s[i]), idx |-> s[i] - 1]
                             ELSE [dist |-> MissingDist, idx |-> 0 - 1]] : s \in picks }

\* meta[idx] with Python's list indexing: a negative idx counts from the end
PyItem(meta, idx) == IF idx < 0 THEN meta[Len(meta) + idx + 1] ELSE meta[idx + 1]

\* text[:150] of the long texts: their common first 150 characters
Prefix(t) == "l"

\* the displayed text of a hit: text[:150] + "..." when longer than 150
DisplayText(t) == IF TextLen(t) > DisplayMax THEN Prefix(t) \o "..." ELSE t

\* a hit's text shown whole, whatever its length
ShownWhole(chars) == chars

\* the same on the characters: text[:150] + "..." if len(text) > 150 else text
DisplayChars(chars) ==
    IF Len(chars) > DisplayMax
    THEN SubSeq(chars, 1, DisplayMax) \o << ".", ".", "." >>
    ELSE chars

\* similarity_score = 1 / (1 + dist), kept as the exact fraction <<num, den>>
SimScore(dist) == << 1, 1 + dist >>

\* a >= b for two scores
ScoreGeq(a, b) == a[1] * b[2] >= b[1] * a[2]

\* the loop over zip(D[0], I[0]): a hit is kept when idx < len(meta)
RECURSIVE PrecedentsOf(_, _)
PrecedentsOf(hits, meta) ==
    IF hits = << >> THEN << >>
    ELSE LET h == Head(hits)
             rest == PrecedentsOf(Tail(hits), meta)
         IN  IF h.idx < Len(meta)
             THEN << [text |-> DisplayText(PyItem(meta, h.idx).text),
                      distance |-> h.dist,
                      case_id |-> PyItem(meta, h.idx).id,
                      similarity_score |-> SimScore(h.dist),
                      idx |-> h.idx] >> \o rest
             ELSE rest

\* a search that finds nothing
SearchNothing(vecs, meta, text, top_k) == { << >> }

\* the precedent lists a search over the loaded (index, meta) may produce
SearchOutcomes(vecs, meta, text, top_k) ==
    IF Len(meta) > 0
    THEN { PrecedentsOf(hits, meta) :
             hits \in FaissSearch(vecs, EmbedVec(text), Min(top_k, Len(meta))) }
    ELSE { << >> }

\* --------------------------------------------------------- request handling
\* the dimension of an embedding
EmbedDim == 768

\* the id add_precedent uses when the request carries none: "case_<len(text)>"
AutoId(t) == "case_" \o ToString(TextLen(t))

\* `if not text` of /embed, /analyze and /add_precedent
TextMissing(text) == text = ""

\* an /analyze that clamps top_k_precedents instead of rejecting it
TopKClamped(k) == FALSE

\* the top_k_precedents check of /analyze
TopKInvalid(k) == k < 1 \/ k > 100

\* `if not tokenizer or not embed_model` of embed_text
EncoderReady(m) == m.tok /\ m.emb

\* /embed has no `except HTTPException: raise`: the 503 raised by embed_text is
\* caught by `except Exception` and answered as 500
EmbedUnavailableStatus == 500

\* /analyze and /add_precedent re-raise the HTTPException of embed_text
UnavailableStatus == 503

VARIABLES
    TRANSFORMERS_AVAILABLE, \* helper: transformers and faiss could be imported
    indexFile,   \* precedent.index: absent, half-written, or a vector sequence
    metaFile,    \* meta.json: absent, half-written, or a list of {id, text}
    models,      \* service / helper: tokenizer, ner_model, embed_model loaded
    pc,          \* per process: position inside the running handler
    req,         \* per process: the request being handled
    loc,         \* per process: the in-memory (index, meta) of the handler
    last,        \* the response sent by the step just taken (NoResp: none)
    acked,       \* records whose add_precedent returned 200 since the last clear
    nAdds,       \* add_precedent requests accepted so far
    agg,         \* analyzer: the file results of one analyze_case request, its
                 \* response, and the process's string-hash seed
    case_documents, \* feedback service: case_id -> CaseDocument
    heap,        \* feedback service: per case, the list objects its documents refer to
    shown        \* display of a hit: the stored texts character by character,
                 \* the position hit and the text displayed for it

vars == << TRANSFORMERS_AVAILABLE, indexFile, metaFile, models, pc, req, loc,
           last, acked, nAdds, agg, shown, case_documents, heap >>

NoReq == [kind |-> "none", text |-> "", k |-> 0, id |-> NoId]
NoLoc == [vecs |-> << >>, recs |-> << >>, did |-> {}]
NoResp ==
    [kind |-> "none", text |-> "", k |-> 0, id |-> NoId,
     status |-> 0, did |-> {}, ntotal |-> 0, recs |-> << >>,
     precs |-> << >>, ner |-> << >>, total |-> 0, case_id |-> NoId,
     avail |-> FALSE, dim |-> 0]

AllModels == [tok |-> TRUE, ner |-> TRUE, emb |-> TRUE]

\* analyze_case has not returned
NoResult ==
    [status |-> 0, nfiles |-> 0, key_facts |-> << >>,
     entities |-> [people |-> << >>, organizations |-> << >>, locations |-> << >>],
     legal_issues_identified |-> << >>, precedents |-> << >>,
     total_precedents |-> 0, timeline |-> << >>, files |-> << >>]

\* no hit is being displayed
NoShown == [meta |-> << >>, idx |-> 0, displayed |-> << >>, done |-> FALSE]

\* no analyze_case request is being handled
NoAgg == [seed |-> 0, files |-> << >>, result |-> NoResult, again |-> NoResult.entities,
          redone |-> FALSE, docs |-> << >>]

\* feedback service (agent2.py): the case ids used, and the keys a document has
CaseIds == {"c1"}
SectionOrder == << "key_facts", "summary" >>
Sections == { SectionOrder[i] : i \in 1 .. Len(SectionOrder) }
AllSections == Sections \cup {"_metadata"}

\* a value under a key of a stored document: no such key, a string, a
\* reference to a list object of the heap, or the _metadata dict
Missing == [kind |-> "missing", str |-> "", ref |-> 0, ver |-> 0, applied |-> 0]
StrVal(c) == [Missing EXCEPT !.kind = "str", !.str = c]
ListVal(a) == [Missing EXCEPT !.kind = "list", !.ref = a]
MetaVal(v, n) == [Missing EXCEPT !.kind = "dict", !.ver = v, !.applied = n]

\* the dict {}
EmptyDoc == [s \in AllSections |-> Missing]

\* a value of a document as JSON carries it: lists by content
JMissing == [kind |-> "missing", str |-> "", items |-> << >>, ver |-> 0, applied |-> 0]
JStr(c) == [JMissing EXCEPT !.kind = "str", !.str = c]
JList(l) == [JMissing EXCEPT !.kind = "list", !.items = l]
JEmptyDoc == [s \in AllSections |-> JMissing]

\* case_documents without the case, and the empty case_documents
NoCase ==
    [exists |-> FALSE, original_document |-> EmptyDoc, has_modified |-> FALSE,
     modified_document |-> EmptyDoc, feedback_history |-> << >>, version |-> 0,
     current_status |-> "", reviewed |-> FALSE, submitted |-> JEmptyDoc]

NoCases == [c \in CaseIds |-> NoCase]

\* no list object is held for any case
NoLists == [c \in CaseIds |-> << >>]

\* the state after the processes have started: the index directory holds the
\* given files, the service's model-loading block and the helper's imports had
\* one of the given outcomes
InitWith(indexFiles, metaFiles, serviceOutcomes, available) ==
    /\ TRANSFORMERS_AVAILABLE \in available
    /\ indexFile \in indexFiles
    /\ metaFile \in metaFiles
    /\ models \in [{Service, Helper} -> ModelOutcomes]
    /\ models[Service] \in serviceOutcomes
    /\ models[Helper] = NoModels
    /\ pc = [p \in Procs |-> "idle"]
    /\ req = [p \in Procs |-> NoReq]
    /\ loc = [p \in Procs |-> NoLoc]
    /\ last = NoResp
    /\ acked = << >>
    /\ nAdds = 0

\* the handler of process p returns (or raises): the response is sent and the
\* handler's locals are gone
Respond(p, r, fields) ==
    /\ last' = [f \in DOMAIN NoResp |->
                  IF f \in DOMAIN fields THEN fields[f]
                  ELSE IF f \in DOMAIN r THEN r[f]
                  ELSE NoResp[f]]
    /\ pc' = [pc EXCEPT ![p] = "idle"]
    /\ req' = [req EXCEPT ![p] = NoReq]
    /\ loc' = [loc EXCEPT ![p] = NoLoc]
    /\ UNCHANGED << agg, shown, case_documents, heap >>

\* the handler of process p goes on to its next file system call
Goto(p, r, l, where) ==
    /\ pc' = [pc EXCEPT ![p] = where]
    /\ req' = [req EXCEPT ![p] = r]
    /\ loc' = [loc EXCEPT ![p] = l]
    /\ last' = NoResp
    /\ UNCHANGED << agg, shown, case_documents, heap >>

\* POST /embed
EmbedEndpoint(p) ==
    /\ p \in Workers
    /\ pc[p] = "idle"
    /\ \E text \in TextInputs :
         LET r == [kind |-> "embed", text |-> text, k |-> 0, id |-> NoId]
         IN  IF TextMissing(text)
             THEN Respond(p, r, [status |-> 400])
             ELSE IF ~EncoderReady(models[Service])
             THEN Respond(p, r, [status |-> EmbedUnavailableStatus, did |-> {"embed"}])
             ELSE Respond(p, r, [status |-> 200, did |-> {"embed"}, dim |-> EmbedDim])
    /\ UNCHANGED << TRANSFORMERS_AVAILABLE, indexFile, metaFile, models, acked, nAdds >>

\* GET /health: reports the module globals, touches nothing else
HealthEndpoint(p) ==
    /\ p \in Workers
    /\ pc[p] = "idle"
    /\ Respond(p, [NoReq EXCEPT !.kind = "health"],
               [status |-> 200, avail |-> models[Service].emb])
    /\ UNCHANGED << TRANSFORMERS_AVAILABLE, indexFile, metaFile, models, acked, nAdds >>

\* the NER pass of /analyze and perform_ner of the helper: [] without a tagger
NerOutput(m, text) == IF m.tok /\ m.ner THEN NerOf(text) ELSE << >>

\* POST /analyze up to its call of load_or_create_faiss.  Validation, embed_text
\* and the NER pass touch no shared state; the text and top_k of a request that
\* passes them are next used by the search, and are drawn there (AfterLoad).
AnalyzeStart(p, texts, ks) ==
    /\ p \in Workers
    /\ pc[p] = "idle"
    /\ \E text \in texts, k \in ks :
         LET r == [kind |-> "analyze", text |-> text, k |-> k, id |-> NoId]
         IN  IF TextMissing(text) \/ TopKInvalid(k)
             THEN Respond(p, r, [status |-> 400])
             ELSE IF ~EncoderReady(models[Service])
             THEN Respond(p, r, [status |-> UnavailableStatus, did |-> {"embed"}])
             ELSE Goto(p, [NoReq EXCEPT !.kind = "analyze"],
                       [NoLoc EXCEPT !.did = {"embed", "ner"}], "load_index")
    /\ UNCHANGED << TRANSFORMERS_AVAILABLE, indexFile, metaFile, models, acked, nAdds >>

\* POST /add_precedent up to its call of load_or_create_faiss; the text and id
\* of a request that passes validation and embed_text are drawn where the
\* record is appended (AfterLoad)
AddStart(p, texts) ==
    /\ p \in Workers
    /\ pc[p] = "idle"
    /\ nAdds < MaxAdds
    /\ \E text \in texts, id \in IdInputs :
         LET r == [kind |-> "add", text |-> text, k |-> 0, id |-> id]
         IN  IF TextMissing(text)
             THEN Respond(p, r, [status |-> 400]) /\ nAdds' = nAdds
             ELSE IF ~EncoderReady(models[Service])
             THEN /\ Respond(p, r, [status |-> UnavailableStatus, did |-> {"embed"}])
                  /\ nAdds' = nAdds
             ELSE /\ Goto(p, [NoReq EXCEPT !.kind = "add"],
                          [NoLoc EXCEPT !.did = {"embed"}], "load_index")
                  /\ nAdds' = nAdds + 1
    /\ UNCHANGED << TRANSFORMERS_AVAILABLE, indexFile, metaFile, models, acked >>

\* GET /precedents/count up to its call of load_or_create_faiss
CountStart(p) ==
    /\ p \in Workers
    /\ pc[p] = "idle"
    /\ Goto(p, [NoReq EXCEPT !.kind = "count"], NoLoc, "load_index")
    /\ UNCHANGED << TRANSFORMERS_AVAILABLE, indexFile, metaFile, models, acked, nAdds >>

\* initialize_models of the helper: what it leaves in the globals and returns.
\* The tokenizer is assigned before the other two models are loaded, so a
\* failing embedding model leaves the tokenizer (and maybe the tagger) set.
InitializeModels(available, m) ==
    IF ~available THEN { [m |-> m, ret |-> FALSE] }
    ELSE IF m.tok THEN { [m |-> m, ret |-> TRUE] }
    ELSE { [m |-> o, ret |-> o.emb] : o \in ModelOutcomes }

\* a helper embed_text that does not look at the globals before encoding
HelperEmbedUnguarded(available, m) == { "vector", "None" }

\* helper embed_text: None unless the tokenizer and the embedding model are set
\* (and None when the forward pass raises)
HelperEmbedOutcomes(available, m) ==
    IF available /\ EncoderReady(m) THEN { "vector", "None" } ELSE { "None" }

\* the explicit initialize_models() call of the analyzer at import
HelperInitialize(p) ==
    /\ p = Helper
    /\ pc[p] = "idle"
    /\ \E out \in InitializeModels(TRANSFORMERS_AVAILABLE, models[Helper]) :
         /\ models' = [models EXCEPT ![Helper] = out.m]
         /\ Respond(p, [NoReq EXCEPT !.kind = "init"], [avail |-> out.ret])
    /\ UNCHANGED << TRANSFORMERS_AVAILABLE, indexFile, metaFile, acked, nAdds >>

\* analyze_with_inlegalbert of the helper up to the load_or_create_faiss of
\* search_precedents; the result is returned here when the search stops early
HelperAnalyzeStart(p) ==
    /\ p = Helper
    /\ pc[p] = "idle"
    /\ \E text \in Texts, k \in HelperTopK :
         LET r == [kind |-> "hanalyze", text |-> text, k |-> k, id |-> NoId]
         IN  IF ~TRANSFORMERS_AVAILABLE
             THEN Respond(p, r, [avail |-> FALSE]) /\ models' = models
             ELSE \E out \in InitializeModels(TRANSFORMERS_AVAILABLE, models[Helper]) :
                    /\ models' = [models EXCEPT ![Helper] = out.m]
                    /\ IF ~out.ret
                       THEN Respond(p, r, [avail |-> FALSE])
                       ELSE \E emb \in HelperEmbedOutcomes(TRANSFORMERS_AVAILABLE, out.m) :
                              IF emb = "None"
                              THEN \E again \in HelperEmbedOutcomes(TRANSFORMERS_AVAILABLE, out.m) :
                                     Respond(p, r,
                                       [avail |-> TRUE, did |-> {"ner", "embed"},
                                        ner |-> NerOutput(out.m, text),
                                        dim |-> IF again = "vector" THEN EmbedDim ELSE 0])
                              ELSE Goto(p, [NoReq EXCEPT !.kind = "hanalyze"],
                                        [NoLoc EXCEPT !.did = {"ner", "embed"}], "load_index")
    /\ UNCHANGED << TRANSFORMERS_AVAILABLE, indexFile, metaFile, acked, nAdds >>

\* the case_id of an add_precedent request: data.get("id", f"case_{len(text)}")
CaseId(text, id) == IF id = NoId THEN AutoId(text) ELSE id

\* the texts and top_k values of the requests that got past validation
PassingTexts == {t \in TextInputs : ~TextMissing(t)}
PassingTopK == {k \in TopKInputs : ~TopKInvalid(k)}

\* what a handler does with the (index, meta) load_or_create_faiss returned
AfterLoad(p, vecs, recs) ==
    LET did == loc[p].did \cup {"load"}
        seen == [did |-> did, ntotal |-> Len(vecs), recs |-> recs]
    IN  CASE req[p].kind = "count" ->
               Respond(p, req[p], seen @@ [status |-> 200, total |-> Len(recs)])
          [] req[p].kind = "analyze" ->
               \E text \in PassingTexts, k \in PassingTopK :
                 \E precs \in SearchOutcomes(vecs, recs, text, k) :
                   Respond(p, [req[p] EXCEPT !.text = text, !.k = k],
                           seen @@ [status |-> 200, precs |-> precs,
                                    ner |-> NerOutput(models[Service], text),
                                    dim |-> EmbedDim, total |-> Len(recs)])
          [] req[p].kind = "hanalyze" ->
               \E text \in PassingTexts, k \in HelperTopK,
                  again \in HelperEmbedOutcomes(TRANSFORMERS_AVAILABLE, models[Helper]) :
                 \E precs \in SearchOutcomes(vecs, recs, text, k) :
                   Respond(p, [req[p] EXCEPT !.text = text, !.k = k],
                           seen @@ [precs |-> precs,
                                    dim |-> IF again = "vector" THEN EmbedDim ELSE 0,
                                    ner |-> NerOutput(models[Helper], text),
                                    avail |-> TRUE])
          [] req[p].kind = "add" ->
               \E text \in PassingTexts, id \in IdInputs :
                 Goto(p, [req[p] EXCEPT !.text = text, !.id = id],
                      [vecs |-> Append(vecs, EmbedVec(text)),
                       recs |-> Append(recs, [id |-> CaseId(text, id), text |-> text]),
                       did |-> did],
                      "save_open_index")

\* a load_or_create_faiss that lives up to its name on disk: it writes the
\* empty index and list it substitutes when a file is missing or unreadable
LoadIndexCreates(p) ==
    /\ pc[p] = "load_index"
    /\ IF Exists(indexFile) /\ Exists(metaFile) /\ indexFile.st = "ok"
       THEN /\ Goto(p, req[p], [loc[p] EXCEPT !.vecs = indexFile.data], "load_meta")
            /\ UNCHANGED << indexFile, metaFile >>
       ELSE /\ AfterLoad(p, << >>, << >>)
            /\ indexFile' = FileOf(<< >>)
            /\ metaFile' = FileOf(<< >>)
    /\ UNCHANGED << TRANSFORMERS_AVAILABLE, models, acked, nAdds >>

\* a load_or_create_faiss that reads without the os.path.exists checks and lets
\* the error of a missing or unreadable index reach the caller
LoadIndexUnchecked(p) ==
    /\ pc[p] = "load_index"
    /\ IF indexFile.st = "ok"
       THEN Goto(p, req[p], [loc[p] EXCEPT !.vecs = indexFile.data], "load_meta")
       ELSE \E text \in PassingTexts, k \in PassingTopK :
              Respond(p, [req[p] EXCEPT !.text = text, !.k = k],
                      [status |-> 500, did |-> loc[p].did \cup {"load"}])
    /\ UNCHANGED << TRANSFORMERS_AVAILABLE, indexFile, metaFile, models, acked, nAdds >>

\* load_or_create_faiss, first part: the two os.path.exists and faiss.read_index
\* (a missing file, or a half-written index, yields the empty index and list)
LoadIndex(p) ==
    /\ pc[p] = "load_index"
    /\ IF Exists(indexFile) /\ Exists(metaFile) /\ indexFile.st = "ok"
       THEN Goto(p, req[p], [loc[p] EXCEPT !.vecs = indexFile.data], "load_meta")
       ELSE AfterLoad(p, << >>, << >>)
    /\ UNCHANGED << TRANSFORMERS_AVAILABLE, indexFile, metaFile, models, acked, nAdds >>

\* a load_or_create_faiss that keeps the index it read when meta.json cannot
\* be read
LoadMetaKeepsIndex(p) ==
    /\ pc[p] = "load_meta"
    /\ IF metaFile.st = "ok"
       THEN AfterLoad(p, loc[p].vecs, metaFile.data)
       ELSE AfterLoad(p, loc[p].vecs, << >>)
    /\ UNCHANGED << TRANSFORMERS_AVAILABLE, indexFile, metaFile, models, acked, nAdds >>

\* load_or_create_faiss, second part: open(meta_file) and json.load (a file
\* removed meanwhile, or half-written, yields the empty index and list)
LoadMeta(p) ==
    /\ pc[p] = "load_meta"
    /\ IF metaFile.st = "ok"
       THEN AfterLoad(p, loc[p].vecs, metaFile.data)
       ELSE AfterLoad(p, << >>, << >>)
    /\ UNCHANGED << TRANSFORMERS_AVAILABLE, indexFile, metaFile, models, acked, nAdds >>

\* save_index: faiss.write_index opens precedent.index for writing (truncating it)
WriteIndexOpen(p) ==
    /\ pc[p] = "save_open_index"
    /\ indexFile' = Partial
    /\ Goto(p, req[p], [loc[p] EXCEPT !.did = @ \cup {"write_index"}], "save_write_index")
    /\ UNCHANGED << TRANSFORMERS_AVAILABLE, metaFile, models, acked, nAdds >>

\* save_index: faiss.write_index has written the whole index
WriteIndexDone(p) ==
    /\ pc[p] = "save_write_index"
    /\ indexFile' = FileOf(loc[p].vecs)
    /\ Goto(p, req[p], loc[p], "save_open_meta")
    /\ UNCHANGED << TRANSFORMERS_AVAILABLE, metaFile, models, acked, nAdds >>

\* save_index: open(meta_file, "w") truncates meta.json
WriteMetaOpen(p) ==
    /\ pc[p] = "save_open_meta"
    /\ metaFile' = Partial
    /\ Goto(p, req[p], [loc[p] EXCEPT !.did = @ \cup {"write_meta"}], "save_write_meta")
    /\ UNCHANGED << TRANSFORMERS_AVAILABLE, indexFile, models, acked, nAdds >>

\* save_index: json.dump has written the whole list; add_precedent returns 200
WriteMetaDone(p) ==
    /\ pc[p] = "save_write_meta"
    /\ metaFile' = FileOf(loc[p].recs)
    /\ Respond(p, req[p],
               [status |-> 200, did |-> loc[p].did, total |-> Len(loc[p].recs),
                ntotal |-> Len(loc[p].vecs), recs |-> loc[p].recs,
                case_id |-> CaseId(req[p].text, req[p].id)])
    /\ acked' = Append(acked, [id |-> CaseId(req[p].text, req[p].id), text |-> req[p].text])
    /\ UNCHANGED << TRANSFORMERS_AVAILABLE, indexFile, models, nAdds >>

SavePcs == {"save_open_index", "save_write_index", "save_open_meta", "save_write_meta"}

\* a failing write that is swallowed: add_precedent answers 200
SaveFailSwallowed(p) ==
    /\ pc[p] \in SavePcs
    /\ Respond(p, req[p], [status |-> 200, did |-> loc[p].did,
                           case_id |-> CaseId(req[p].text, req[p].id)])
    /\ UNCHANGED << TRANSFORMERS_AVAILABLE, indexFile, metaFile, models, acked, nAdds >>

\* save_index: a write raises (disk full, permission); whatever was written so
\* far stays on disk and add_precedent answers 500
SaveFail(p) ==
    /\ pc[p] \in SavePcs
    /\ Respond(p, req[p], [status |-> 500, did |-> loc[p].did,
                           case_id |-> CaseId(req[p].text, req[p].id)])
    /\ UNCHANGED << TRANSFORMERS_AVAILABLE, indexFile, metaFile, models, acked, nAdds >>

\* a worker process dies inside a handler (and is restarted): no response, the
\* files stay as they are
Crash(p) ==
    /\ p \in Workers
    /\ pc[p] # "idle"
    /\ pc' = [pc EXCEPT ![p] = "idle"]
    /\ req' = [req EXCEPT ![p] = NoReq]
    /\ loc' = [loc EXCEPT ![p] = NoLoc]
    /\ last' = NoResp
    /\ UNCHANGED << TRANSFORMERS_AVAILABLE, indexFile, metaFile, models, acked, nAdds, agg, shown, case_documents, heap >>

\* DELETE /precedents/clear, first file: os.path.exists and os.remove
ClearIndex(p) ==
    /\ p \in Workers
    /\ pc[p] = "idle"
    /\ \/ /\ indexFile' = Absent
          /\ acked' = << >>
          /\ Goto(p, [NoReq EXCEPT !.kind = "clear"],
                  [NoLoc EXCEPT !.did = IF Exists(indexFile) THEN {"remove_index"} ELSE {}],
                  "clear_meta")
       \/ /\ Exists(indexFile)
          /\ indexFile' = indexFile
          /\ acked' = acked
          /\ Respond(p, [NoReq EXCEPT !.kind = "clear"], [status |-> 500])
    /\ UNCHANGED << TRANSFORMERS_AVAILABLE, metaFile, models, nAdds >>

\* a clear that removes precedent.index only
ClearMetaKept(p) ==
    /\ pc[p] = "clear_meta"
    /\ Respond(p, req[p], [status |-> 200, did |-> loc[p].did])
    /\ acked' = << >>
    /\ UNCHANGED << TRANSFORMERS_AVAILABLE, indexFile, metaFile, models, nAdds >>

\* DELETE /precedents/clear, second file
ClearMeta(p) ==
    /\ pc[p] = "clear_meta"
    /\ \/ /\ metaFile' = Absent
          /\ Respond(p, req[p],
                     [status |-> 200,
                      did |-> loc[p].did \cup IF Exists(metaFile) THEN {"remove_meta"} ELSE {}])
       \/ /\ Exists(metaFile)
          /\ metaFile' = metaFile
          /\ Respond(p, req[p], [status |-> 500, did |-> loc[p].did])
    /\ acked' = << >>
    /\ UNCHANGED << TRANSFORMERS_AVAILABLE, indexFile, models, nAdds >>

\* the steps of a handler after its first, common to all deployments
Continue(p) ==
    \/ LoadIndex(p)
    \/ LoadMeta(p)
    \/ WriteIndexOpen(p)
    \/ WriteIndexDone(p)
    \/ WriteMetaOpen(p)
    \/ WriteMetaDone(p)
    \/ SaveFail(p)
    \/ Crash(p)

\* The index store under concurrency: two service workers, all models loaded,
\* requests that pass validation.
Init ==
    /\ InitWith({Absent}, {Absent}, {AllModels}, {TRUE})
    /\ agg = NoAgg
    /\ shown = NoShown
    /\ case_documents = NoCases
    /\ heap = NoLists

Next ==
    \E p \in Workers :
        \/ AnalyzeStart(p, Texts, ValidTopK)
        \/ AddStart(p, Texts)
        \/ CountStart(p)
        \/ ClearIndex(p)
        \/ ClearMeta(p)
        \/ Continue(p)

Spec == Init /\ [][Next]_vars

\* The service API: one worker, every outcome of model loading, every request.
InitService ==
    /\ InitWith({Absent}, {Absent}, ModelOutcomes, {TRUE})
    /\ agg = NoAgg
    /\ shown = NoShown
    /\ case_documents = NoCases
    /\ heap = NoLists

NextService ==
    \E p \in {"w1"} :
        \/ EmbedEndpoint(p)
        \/ AnalyzeStart(p, TextInputs, TopKInputs)
        \/ AddStart(p, TextInputs)
        \/ CountStart(p)
        \/ ClearIndex(p)
        \/ ClearMeta(p)
        \/ Continue(p)

SpecService == InitService /\ [][NextService]_vars

\* The helper (in the analyzer process) beside one service worker: every
\* outcome of the helper's imports and of either model loading.
InitHelper ==
    /\ InitWith({Absent}, {Absent}, ModelOutcomes, BOOLEAN)
    /\ agg = NoAgg
    /\ shown = NoShown
    /\ case_documents = NoCases
    /\ heap = NoLists

NextHelper ==
    \E p \in {"w1", Helper} :
        \/ AnalyzeStart(p, Texts, ValidTopK)
        \/ AddStart(p, Texts)
        \/ HelperInitialize(p)
        \/ HelperAnalyzeStart(p)
        \/ Continue(p)

SpecHelper == InitHelper /\ [][NextHelper]_vars

\* Searches over every persisted index and metadata list of up to MaxLen
\* entries, equal in length or not.  Each such pair of files is a state the
\* directory can be left in: a worker that loaded an earlier index and writes
\* it after the list was rebuilt by others (and then dies before writing its
\* list) pairs any index with any list.
RECURSIVE SeqsUpTo(_, _)
SeqsUpTo(S, n) ==
    IF n = 0 THEN { << >> }
    ELSE LET shorter == SeqsUpTo(S, n - 1)
         IN  shorter \cup { Append(q, x) : q \in shorter, x \in S }

\* the records of such lists: one stored without an id, one with
Records == { [id |-> CaseId("ta", NoId), text |-> "ta"],
             [id |-> CaseId("tb", "p1"), text |-> "tb"] }

InitSearch ==
    /\ InitWith({ FileOf(v) : v \in SeqsUpTo({ EmbedVec(t) : t \in Texts }, MaxLen) \ { << >> } },
                { FileOf(r) : r \in SeqsUpTo(Records, MaxLen) \ { << >> } },
                {AllModels}, {TRUE})
    /\ agg = NoAgg
    /\ shown = NoShown
    /\ case_documents = NoCases
    /\ heap = NoLists

NextSearch ==
    \E p \in {"w1", Helper} :
        \/ AnalyzeStart(p, Texts, ValidTopK)
        \/ HelperInitialize(p)
        \/ HelperAnalyzeStart(p)
        \/ LoadIndex(p)
        \/ LoadMeta(p)

SpecSearch == InitSearch /\ [][NextSearch]_vars

\* Every /analyze request and every helper analysis beside one worker that
\* adds and clears, without failing writes: the service's models are loaded,
\* the helper's may not be.
InitApi ==
    /\ InitWith({Absent}, {Absent}, {AllModels}, {TRUE})
    /\ agg = NoAgg
    /\ shown = NoShown
    /\ case_documents = NoCases
    /\ heap = NoLists

NextApi ==
    \E p \in {"w1", Helper} :
        \/ AnalyzeStart(p, TextInputs, TopKInputs)
        \/ AddStart(p, Texts)
        \/ ClearIndex(p)
        \/ ClearMeta(p)
        \/ HelperAnalyzeStart(p)
        \/ LoadIndex(p)
        \/ LoadMeta(p)
        \/ WriteIndexOpen(p)
        \/ WriteIndexDone(p)
        \/ WriteMetaOpen(p)
        \/ WriteMetaDone(p)

SpecApi == InitApi /\ [][NextApi]_vars

\* The service, one worker with its models loaded, on a directory that already
\* holds one precedent: the state after one add_precedent returned 200.
InitStored ==
    \E t \in Texts, i \in IdInputs :
        LET rec == [id |-> CaseId(t, i), text |-> t]
        IN  /\ TRANSFORMERS_AVAILABLE = TRUE
            /\ indexFile = FileOf(<< EmbedVec(t) >>)
            /\ metaFile = FileOf(<< rec >>)
            /\ models = [m \in {Service, Helper} |->
                           IF m = Service THEN AllModels ELSE NoModels]
            /\ pc = [p \in Procs |-> "idle"]
            /\ req = [p \in Procs |-> NoReq]
            /\ loc = [p \in Procs |-> NoLoc]
            /\ last = NoResp
            /\ acked = << rec >>
            /\ nAdds = 0
            /\ agg = NoAgg
            /\ shown = NoShown
            /\ case_documents = NoCases
            /\ heap = NoLists

NextStored ==
    \E p \in {"w1"} :
        \/ AnalyzeStart(p, Texts, ValidTopK)
        \/ AddStart(p, Texts)
        \/ CountStart(p)
        \/ ClearIndex(p)
        \/ ClearMeta(p)
        \/ Continue(p)

SpecStored == InitStored /\ [][NextStored]_vars

\* The read operations alone, over every directory content: either file
\* missing, half-written, or holding up to MaxLen entries.
StoredIndexFiles ==
    {Absent, Partial} \cup { FileOf(v) : v \in SeqsUpTo({ EmbedVec(t) : t \in Texts }, MaxLen) }

StoredMetaFiles ==
    {Absent, Partial} \cup { FileOf(r) : r \in SeqsUpTo(Records, MaxLen) }

InitReads ==
    /\ InitWith(StoredIndexFiles, StoredMetaFiles, {AllModels}, {TRUE})
    /\ agg = NoAgg
    /\ shown = NoShown
    /\ case_documents = NoCases
    /\ heap = NoLists

NextReads ==
    \E p \in {"w1", Helper} :
        \/ EmbedEndpoint(p)
        \/ HealthEndpoint(p)
        \/ AnalyzeStart(p, Texts, ValidTopK)
        \/ CountStart(p)
        \/ HelperAnalyzeStart(p)
        \/ LoadIndex(p)
        \/ LoadMeta(p)

SpecReads == InitReads /\ [][NextReads]_vars

\* ---------------------------------------------------------------- analyzer
\* analyze_case of agent1.py: the file results of one request are gathered,
\* deduplicated and returned as one case record
\* files in one request
MaxFiles == 2

\* a sequence's first n elements: s[:n]
Take(s, n) == SubSeq(s, 1, Min(n, Len(s)))

\* the entity kinds of a case record
EntityKinds == {"people", "organizations", "locations"}

\* str.lower() on the modelled names
Lower(n) ==
    CASE n = "John Smith" -> "john smith"
      [] n = "JOHN SMITH" -> "john smith"
      [] n = "Acme" -> "acme"
      [] OTHER -> n

\* a JSON null in an analysis
Null == "<null>"

\* the entity mentions a file analysis can hold: a dict with a name (possibly
\* empty, possibly null) and a role, or a bare string
EntityInputs ==
    { [form |-> "dict", name |-> n, role |-> r] :
          n \in {"John Smith", "john smith", "Acme", ""}, r \in {"witness", "defendant"} }
    \cup { [form |-> "str", name |-> "JOHN SMITH", role |-> ""] }
    \cup { [form |-> "dict", name |-> Null, role |-> "judge"] }

\* x.get("name", "").lower() raises on a name that is not a string
NameRaises(e) == e.form = "dict" /\ e.name = Null

\* the key of a mention: x.get("name", "").lower() of a dict, str(x).lower()
\* of anything else
EntityKey(e) == Lower(e.name)

\* truthiness of a mention
EntityTruthy(e) == ~ ( e.form = "str" /\ e.name = "" )

\* the facts and the issues a file analysis can hold; "" stands for a falsy item
FactInputs == {"fact", ""}
IssueInputs == {"issue", ""}
ItemTruthy(x) == x # ""

\* the date strings of timeline events, as sequences of digits: "", "2", "19";
\* a missing date reads as ""
DateInputs == { << >>, << 2 >>, << 1, 9 >> }

\* the timeline events a file analysis can hold; the date of an event may be
\* null
EventInputs ==
    { [date |-> d, isNull |-> FALSE, event |-> e] : d \in DateInputs, e \in {"e1", "e2"} }
    \cup { [date |-> << >>, isNull |-> TRUE, event |-> "e1"] }

\* a < b for two strings, character by character
RECURSIVE StrLess(_, _)
StrLess(a, b) ==
    IF b = << >> THEN FALSE
    ELSE IF a = << >> THEN TRUE
    ELSE IF Head(a) # Head(b) THEN Head(a) < Head(b)
    ELSE StrLess(Tail(a), Tail(b))

\* the stored precedents the searches of one request run over
CaseMeta ==
    << [id |-> "p1", text |-> "ta"], [id |-> "p2", text |-> "ta"],
       [id |-> "", text |-> "ta"],   [id |-> "", text |-> "tb"],
       [id |-> "", text |-> "la"],   [id |-> "", text |-> "lb"] >>

\* the precedent entries analyze_with_inlegalbert can return for a file: one
\* hit of the search for the file's text
PrecedentInputs ==
    { PrecedentsOf(<< [dist |-> L2Dist(EmbedVec(PyItem(CaseMeta, i).text), EmbedVec(q)),
                       idx |-> i] >>, CaseMeta)[1] :
          i \in 0 .. Len(CaseMeta) - 1, q \in Texts }

\* the string-hash seeds of a process: under seed 1 "ta" and "tb" collide
HashSeeds == {0, 1}

\* hash(text) under a seed; hash("") is 0 under every seed
TextHash(seed, t) ==
    CASE t = "" -> 0
      [] t = "ta" -> IF seed = 0 THEN 11 ELSE 21
      [] t = "tb" -> IF seed = 0 THEN 12 ELSE 21
      [] OTHER -> IF seed = 0 THEN 13 ELSE 23

\* a file whose analysis holds nothing
EmptyFile ==
    [failed |-> FALSE, key_facts |-> << >>,
     entities |-> [people |-> << >>, organizations |-> << >>, locations |-> << >>],
     legal_issues |-> << >>, precedents |-> << >>, timeline |-> << >>]

\* a file whose processing raises
FailedFile == [EmptyFile EXCEPT !.failed = TRUE]

\* the results process_file can give
FileResults ==
    {FailedFile}
    \cup { [EmptyFile EXCEPT !.key_facts = << f >>] : f \in FactInputs }
    \cup { [EmptyFile EXCEPT !.entities[k] = << e >>] : k \in EntityKinds, e \in EntityInputs }
    \cup { [EmptyFile EXCEPT !.legal_issues = << i >>] : i \in IssueInputs }
    \cup { [EmptyFile EXCEPT !.precedents = << x >>] : x \in PrecedentInputs }
    \cup { [EmptyFile EXCEPT !.timeline = << e >>] : e \in EventInputs }

\* the loop over the files: the lists of the files that did not fail, joined
RECURSIVE all_key_facts(_)
all_key_facts(files) ==
    IF files = << >> THEN << >>
    ELSE ( IF Head(files).failed THEN << >>
           ELSE SelectSeq(Head(files).key_facts, ItemTruthy) )
         \o all_key_facts(Tail(files))

RECURSIVE all_entities(_, _)
all_entities(files, kind) ==
    IF files = << >> THEN << >>
    ELSE ( IF Head(files).failed THEN << >>
           ELSE SelectSeq(Head(files).entities[kind], EntityTruthy) )
         \o all_entities(Tail(files), kind)

RECURSIVE all_legal_issues(_)
all_legal_issues(files) ==
    IF files = << >> THEN << >>
    ELSE ( IF Head(files).failed THEN << >>
           ELSE SelectSeq(Head(files).legal_issues, ItemTruthy) )
         \o all_legal_issues(Tail(files))

RECURSIVE all_timeline(_)
all_timeline(files) ==
    IF files = << >> THEN << >>
    ELSE ( IF Head(files).failed THEN << >> ELSE Head(files).timeline )
         \o all_timeline(Tail(files))

\* the entry of a file in evidence_analysis.files: the file's result, or the
\* error marker of a file whose processing raised
RECURSIVE processed_files(_)
processed_files(files) ==
    IF files = << >> THEN << >>
    ELSE << IF Head(files).failed
            THEN [processed |-> FALSE, error |-> TRUE, analysis |-> EmptyFile]
            ELSE [processed |-> TRUE, error |-> FALSE, analysis |-> Head(files)] >>
         \o processed_files(Tail(files))

RECURSIVE all_precedents(_)
all_precedents(files) ==
    IF files = << >> THEN << >>
    ELSE ( IF Head(files).failed THEN << >> ELSE Head(files).precedents )
         \o all_precedents(Tail(files))

\* a later mention replaces the one kept under its name
SeenKeepLast(seen, e) ==
    IF EntityKey(e) = "" THEN seen
    ELSE IF \E i \in 1 .. Len(seen) : EntityKey(seen[i]) = EntityKey(e)
         THEN [ i \in 1 .. Len(seen) |->
                    IF EntityKey(seen[i]) = EntityKey(e) THEN e ELSE seen[i] ]
         ELSE Append(seen, e)

\* a kept mention put in front
SeenPrepend(seen, e) ==
    IF EntityKey(e) # "" /\ \A i \in 1 .. Len(seen) : EntityKey(seen[i]) # EntityKey(e)
    THEN << e >> \o seen
    ELSE seen

\* one step of the entity loop: a mention with a name not seen yet is kept
SeenAdd(seen, e) ==
    IF EntityKey(e) # "" /\ \A i \in 1 .. Len(seen) : EntityKey(seen[i]) # EntityKey(e)
    THEN Append(seen, e)
    ELSE seen

\* the entity loop: list(seen.values()) after the mentions of list went in
RECURSIVE DedupEntitiesFrom(_, _)
DedupEntitiesFrom(seen, list) ==
    IF list = << >> THEN seen
    ELSE DedupEntitiesFrom(SeenAdd(seen, Head(list)), Tail(list))

DedupEntities(list) == DedupEntitiesFrom(<< >>, list)

\* the fallback fact
PlaceholderFact(n) == "Evidence files processed: " \o ToString(n) \o " files"

\* the fallback issue
PlaceholderIssue == "Case evidence analysis"

\* no fallback
NoFallback(list, item) == list

\* a list, or the fallback item when the list is empty
OrFallback(list, item) == IF list = << >> THEN << item >> ELSE list

\* the key a precedent is deduplicated under: its case_id, or the hash of its
\* text when the case_id is falsy; strings and hashes never compare equal
PrecedentKey(seed, prec) ==
    IF prec.case_id # ""
    THEN [by |-> "case_id", id |-> prec.case_id, hash |-> 0]
    ELSE [by |-> "hash", id |-> "", hash |-> TextHash(seed, prec.text)]

\* the precedent loop: list(seen_precedents.values())
RECURSIVE DedupPrecedentsFrom(_, _, _)
DedupPrecedentsFrom(seed, seen, list) ==
    IF list = << >> THEN seen
    ELSE LET prec == Head(list)
             isNew == \A i \in 1 .. Len(seen) :
                          PrecedentKey(seed, seen[i]) # PrecedentKey(seed, prec)
         IN  DedupPrecedentsFrom(seed, IF isNew THEN Append(seen, prec) ELSE seen,
                                 Tail(list))

\* the precedents left in the order they were found
Unranked(list) == list

\* sort(key = similarity_score, reverse = True), which keeps equal scores in
\* their order
RECURSIVE InsertByScore(_, _)
InsertByScore(sorted, prec) ==
    IF sorted = << >> THEN << prec >>
    ELSE IF ScoreGeq(Head(sorted).similarity_score, prec.similarity_score)
         THEN << Head(sorted) >> \o InsertByScore(Tail(sorted), prec)
         ELSE << prec >> \o sorted

RECURSIVE SortByScore(_)
SortByScore(list) ==
    IF list = << >> THEN << >>
    ELSE InsertByScore(SortByScore(SubSeq(list, 1, Len(list) - 1)), list[Len(list)])

unique_precedents(seed, files) ==
    SortByScore(DedupPrecedentsFrom(seed, << >>, all_precedents(files)))

\* sorted(key = date), which keeps equal dates in their order
RECURSIVE InsertByDate(_, _)
InsertByDate(sorted, ev) ==
    IF sorted = << >> THEN << ev >>
    ELSE IF StrLess(ev.date, Head(sorted).date)
         THEN << ev >> \o sorted
         ELSE << Head(sorted) >> \o InsertByDate(Tail(sorted), ev)

RECURSIVE SortByDate(_)
SortByDate(list) ==
    IF list = << >> THEN << >>
    ELSE InsertByDate(SortByDate(SubSeq(list, 1, Len(list) - 1)), list[Len(list)])

\* the steps after the loop over the files raise: the entity loop on a null
\* name, the timeline sort on comparing a null date
AggregationRaises(files) ==
    \/ \E k \in EntityKinds : \E i \in 1 .. Len(all_entities(files, k)) :
           NameRaises(all_entities(files, k)[i])
    \/ /\ Len(all_timeline(files)) >= 2
       /\ \E i \in 1 .. Len(all_timeline(files)) : all_timeline(files)[i].isNull

\* the limits of the returned lists
FactsLimit == 20
TimelineLimit == 20
IssuesLimit == 10
PrecedentsLimit == 10

\* a timeline cut before it is sorted
CapThenSort(events) == SortByDate(Take(events, TimelineLimit))

\* sorted(all_timeline, key = date)[:20]
case_timeline(events) == Take(SortByDate(events), TimelineLimit)

\* the record analyze_case returns
CaseRecord(seed, files) ==
    [status |-> 200,
     nfiles |-> Len(files),
     key_facts |-> Take(OrFallback(all_key_facts(files), PlaceholderFact(Len(files))),
                        FactsLimit),
     entities |-> [k \in EntityKinds |-> DedupEntities(all_entities(files, k))],
     legal_issues_identified |->
         Take(OrFallback(all_legal_issues(files), PlaceholderIssue), IssuesLimit),
     precedents |-> Take(unique_precedents(seed, files), PrecedentsLimit),
     total_precedents |-> Len(unique_precedents(seed, files)),
     timeline |-> case_timeline(all_timeline(files)),
     files |-> processed_files(files)]

\* a request without files is refused
NoFilesStatus == 400

\* an exception that leaves analyze_case is answered by the framework
RaisedStatus == 500

StoreIdle == UNCHANGED << TRANSFORMERS_AVAILABLE, indexFile, metaFile, models, pc, req,
                          loc, last, acked, nAdds, shown,
                          case_documents, heap >>

\* one more file of the request has been processed
ProcessFile ==
    /\ agg.result = NoResult
    /\ Len(agg.files) < MaxFiles
    /\ \E f \in FileResults : agg' = [agg EXCEPT !.files = Append(@, f)]
    /\ StoreIdle

\* analyze_case answers
AnalyzeCase ==
    /\ agg.result = NoResult
    /\ agg' = [agg EXCEPT !.result =
                   IF agg.files = << >>
                   THEN [NoResult EXCEPT !.status = NoFilesStatus]
                   ELSE IF AggregationRaises(agg.files)
                        THEN [NoResult EXCEPT !.status = RaisedStatus]
                        ELSE CaseRecord(agg.seed, agg.files)]
    /\ StoreIdle

\* the entity loop runs over the entities of a returned record once more
DedupAgain ==
    /\ agg.result.status = 200
    /\ ~ agg.redone
    /\ agg' = [agg EXCEPT !.again = [k \in EntityKinds |-> DedupEntities(agg.result.entities[k])],
                          !.redone = TRUE]
    /\ StoreIdle

InitCase ==
    /\ InitWith({Absent}, {Absent}, {AllModels}, {TRUE})
    /\ \E s \in HashSeeds : agg = [NoAgg EXCEPT !.seed = s]
    /\ shown = NoShown
    /\ case_documents = NoCases
    /\ heap = NoLists

NextCase == ProcessFile \/ AnalyzeCase \/ DedupAgain

SpecCase == InitCase /\ [][NextCase]_vars

\* ------------------------------------------------------- analyzer, documents
\* process_file of agent1.py over whole documents: what a document holds, the
\* path its analysis takes, and the file result that reaches analyze_case
\* documents in one request
MaxDocs == 3

\* the fact sentences, issues and dated events of each modelled document
FactsPerDoc == 16
IssuesPerDoc == 6
EventsPerDoc == 11

\* the limits extract_basic_info_from_text puts on the lists of one document
DocFactsLimit == 15
DocIssuesLimit == 5
DocTimelineLimit == 10

\* the precedents process_file asks analyze_with_inlegalbert for
DocTopK == 5

\* the documents of a request: the language model analyses the text
\* ("openai"), or the fallback extraction does ("fallback"), or processing
\* raises ("raises")
DocTags == {"a", "b", "c"}
Documents ==
    { [path |-> p, tag |-> t] : p \in {"openai", "fallback"}, t \in DocTags }
    \cup { [path |-> "raises", tag |-> "a"] }

TagNo(t) == CASE t = "a" -> 0 [] t = "b" -> 1 [] OTHER -> 2

\* what a document holds
DocFacts(d) == [ i \in 1 .. FactsPerDoc |-> d.tag \o "-fact-" \o ToString(i) ]
DocIssues(d) == [ i \in 1 .. IssuesPerDoc |-> d.tag \o "-issue-" \o ToString(i) ]
DocEvents(d) ==
    [ i \in 1 .. EventsPerDoc |->
        [date |-> IF i = 1 THEN << >>
                  ELSE IF i % 2 = 0 THEN << (i * 7 + TagNo(d.tag)) % 10 >>
                  ELSE << 1, (i + TagNo(d.tag)) % 10 >>,
         isNull |-> FALSE,
         event |-> d.tag \o "-event-" \o ToString(i)] ]

\* the precedent store the documents of a request are searched against
DocMeta == [ j \in 1 .. 2 * DocTopK + 1 |-> [id |-> "q" \o ToString(j), text |-> "ta"] ]

\* the hits of the search for a document's text: DocTopK stored precedents,
\* closest first
DocHits(d) ==
    [ i \in 1 .. DocTopK |->
        [dist |-> i - 1 + TagNo(d.tag), idx |-> (DocTopK - 2) * TagNo(d.tag) + i - 1] ]

\* the per-document lists come out whole
NoDocLimit(list, n) == list

\* extract_basic_info_from_text: the lists of one document are cut
DocLimit(list, n) == Take(list, n)

\* the result of process_file for a document
process_file(d) ==
    IF d.path = "raises" THEN FailedFile
    ELSE [EmptyFile EXCEPT
            !.key_facts = IF d.path = "fallback"
                          THEN DocLimit(DocFacts(d), DocFactsLimit) ELSE DocFacts(d),
            !.legal_issues = IF d.path = "fallback"
                             THEN DocLimit(DocIssues(d), DocIssuesLimit) ELSE DocIssues(d),
            !.timeline = IF d.path = "fallback"
                         THEN DocLimit(DocEvents(d), DocTimelineLimit) ELSE DocEvents(d),
            !.precedents = PrecedentsOf(DocHits(d), DocMeta)]

\* one more document of the request has been processed
ProcessDocument ==
    /\ agg.result = NoResult
    /\ Len(agg.docs) < MaxDocs
    /\ Len(agg.files) = Len(agg.docs)
    /\ \E d \in Documents :
           agg' = [agg EXCEPT !.docs = Append(@, d), !.files = Append(@, process_file(d))]
    /\ StoreIdle

InitBatch ==
    /\ InitWith({Absent}, {Absent}, {AllModels}, {TRUE})
    /\ agg = NoAgg
    /\ shown = NoShown
    /\ case_documents = NoCases
    /\ heap = NoLists

NextBatch == ProcessDocument \/ AnalyzeCase

SpecBatch == InitBatch /\ [][NextBatch]_vars

\* ------------------------------------------------------------ display of a hit
\* a text of n characters that ends in c
TextOf(n, c) == [ i \in 1 .. n |-> IF i = n THEN c ELSE "x" ]

\* stored texts around the display limit
StoredTexts ==
    { TextOf(n, c) : n \in { 0, 1, DisplayMax - 1, DisplayMax, DisplayMax + 1,
                             DisplayMax + 3, DisplayMax + 4, 2 * DisplayMax },
                     c \in {"a", "b"} }

InitDisplay ==
    /\ InitWith({Absent}, {Absent}, {AllModels}, {TRUE})
    /\ agg = NoAgg
    /\ case_documents = NoCases
    /\ heap = NoLists
    /\ \E t1, t2 \in StoredTexts : \E i \in {0, 1} :
           shown = [NoShown EXCEPT !.meta = << t1, t2 >>, !.idx = i]

\* the entry of a hit is built: its text is the displayed form of meta[idx]
DisplayHit ==
    /\ ~ shown.done
    /\ shown.idx < Len(shown.meta)
    /\ shown' = [shown EXCEPT !.displayed = DisplayChars(PyItem(shown.meta, shown.idx)),
                              !.done = TRUE]
    /\ UNCHANGED << TRANSFORMERS_AVAILABLE, indexFile, metaFile, models, pc, req, loc,
                    last, acked, nAdds, agg, case_documents, heap >>

NextDisplay == DisplayHit

SpecDisplay == InitDisplay /\ [][NextDisplay]_vars

\* ---------------------------------------------------------------- feedback
\* agent2.py: documents submitted for review and the feedback applied to them
\* feedback items in one request, feedback requests per case
MaxItems == 2
MaxFeedback == 2

\* the documents submitted: each key absent, a string, or a list
DocValues == { JMissing, JStr("s"), JList(<< >>), JList(<< "f1" >>) }
SubmittedDocs ==
    { [s \in AllSections |-> IF s \in Sections THEN d[s] ELSE JMissing] :
          d \in [Sections -> DocValues] }

\* FeedbackItem, HumanFeedback
FeedbackTypes == {"add", "edit", "delete", "approve"}
FeedbackItems == [section : Sections, feedback_type : FeedbackTypes, content : {"x"}]
ApprovalInputs == {"pending", "approved", "rejected", "needs_revision"}

\* the request body as the handler holds it: a dict whose lists are objects
RECURSIVE StoreFrom(_, _, _, _)
StoreFrom(jdoc, d, h, i) ==
    IF i > Len(SectionOrder) THEN [doc |-> d, heap |-> h]
    ELSE LET s == SectionOrder[i]
             v == jdoc[s]
         IN  IF v.kind = "list"
             THEN StoreFrom(jdoc, [d EXCEPT ![s] = ListVal(Len(h) + 1)],
                            Append(h, v.items), i + 1)
             ELSE StoreFrom(jdoc, [d EXCEPT ![s] = [Missing EXCEPT !.kind = v.kind,
                                                                   !.str = v.str]],
                            h, i + 1)

\* a stored document read out: every list by its present content
Deep(d, h) ==
    [s \in AllSections |->
        IF d[s].kind = "list" THEN JList(h[d[s].ref])
        ELSE [kind |-> d[s].kind, str |-> d[s].str, items |-> << >>,
              ver |-> d[s].ver, applied |-> d[s].applied]]

\* original.copy(): a new dict with the same values, lists included
ShallowCopy(d, h) == [doc |-> d, heap |-> h]

\* the loop of process_feedback over the items
RECURSIVE ApplyItems(_, _, _, _)
ApplyItems(modified, h, items, i) ==
    IF i > Len(items) THEN [doc |-> modified, heap |-> h]
    ELSE LET item == items[i]
             s == item.section
         IN  CASE item.feedback_type = "add" ->
                    LET h1 == IF modified[s].kind = "missing" THEN Append(h, << >>) ELSE h
                        m1 == IF modified[s].kind = "missing"
                              THEN [modified EXCEPT ![s] = ListVal(Len(h1))]
                              ELSE modified
                    IN  IF m1[s].kind = "list"
                        THEN ApplyItems(m1, [h1 EXCEPT ![m1[s].ref] = Append(@, item.content)],
                                        items, i + 1)
                        ELSE ApplyItems(m1, h1, items, i + 1)
               [] item.feedback_type = "edit" ->
                    ApplyItems([modified EXCEPT ![s] = StrVal(item.content)], h, items, i + 1)
               [] item.feedback_type = "delete" ->
                    ApplyItems([modified EXCEPT ![s] = Missing], h, items, i + 1)
               [] OTHER -> ApplyItems(modified, h, items, i + 1)

process_feedback(original, feedback_items, version, h) ==
    LET copy == ShallowCopy(original, h)
        done == ApplyItems(copy.doc, copy.heap, feedback_items, 1)
    IN  [doc  |-> [done.doc EXCEPT !["_metadata"] = MetaVal(version + 1, Len(feedback_items))],
         heap |-> done.heap]

ReviewIdle == UNCHANGED << TRANSFORMERS_AVAILABLE, indexFile, metaFile, models, pc, req,
                           loc, last, acked, nAdds, agg, shown >>

\* POST /documents/submit: the case's former document, if any, is dropped with
\* its lists
submit_for_review ==
    /\ \E case_id \in CaseIds, document \in SubmittedDocs :
         LET held == StoreFrom(document, EmptyDoc, << >>, 1)
         IN  /\ heap' = [heap EXCEPT ![case_id] = held.heap]
             /\ case_documents' =
                   [case_documents EXCEPT ![case_id] =
                       [NoCase EXCEPT !.exists = TRUE, !.original_document = held.doc,
                                      !.version = 1, !.current_status = "pending_review",
                                      !.reviewed = TRUE, !.submitted = document]]
    /\ ReviewIdle

\* POST /documents/{case_id}/feedback, for a body the HumanFeedback model accepts
submit_feedback ==
    /\ \E case_id \in CaseIds, approval_status \in ApprovalInputs,
          feedback_items \in SeqsUpTo(FeedbackItems, MaxItems) :
         LET doc == IF case_documents[case_id].exists THEN case_documents[case_id]
                    ELSE [NoCase EXCEPT !.exists = TRUE, !.version = 1,
                                        !.current_status = "pending_review"]
             made == process_feedback(doc.original_document, feedback_items,
                                      doc.version, heap[case_id])
             applies == approval_status \in {"approved", "needs_revision"}
                        /\ feedback_items # << >>
         IN  /\ Len(doc.feedback_history) < MaxFeedback
             /\ heap' = IF applies THEN [heap EXCEPT ![case_id] = made.heap] ELSE heap
             /\ case_documents' =
                   [case_documents EXCEPT ![case_id] =
                       [doc EXCEPT !.feedback_history =
                                       Append(@, [approval_status |-> approval_status,
                                                  items |-> Len(feedback_items)]),
                                   !.current_status = approval_status,
                                   !.has_modified = IF applies THEN TRUE ELSE @,
                                   !.modified_document = IF applies THEN made.doc ELSE @,
                                   !.version = IF applies THEN @ + 1 ELSE @]]
    /\ ReviewIdle

\* POST /documents/{case_id}/approve, for a case that exists
approve_document ==
    /\ \E case_id \in CaseIds, approved \in BOOLEAN :
         /\ case_documents[case_id].exists
         /\ case_documents' =
               [case_documents EXCEPT ![case_id].current_status =
                                           IF approved THEN "approved" ELSE "rejected"]
    /\ heap' = heap
    /\ ReviewIdle

InitReview ==
    /\ InitWith({Absent}, {Absent}, {AllModels}, {TRUE})
    /\ agg = NoAgg
    /\ shown = NoShown
    /\ case_documents = NoCases
    /\ heap = NoLists

NextReview == submit_for_review \/ submit_feedback \/ approve_document

SpecReview == InitReview /\ [][NextReview]_vars

\* ------------------------------------------------------------------ claims
\* the handlers that only read the index: /precedents/count, /analyze and the
\* helper's analyze_with_inlegalbert
ReadKinds == {"count", "analyze", "hanalyze"}

\* the response of the step just taken is that of a handler that got through
\* load_or_create_faiss
LoadedResponse == last.kind \in ReadKinds /\ "load" \in last.did

\* number of entries a persisted file holds
Persisted(f) == IF f.st = "ok" THEN Len(f.data) ELSE 0

\* neither file is half-written
FilesWhole == indexFile.st # "partial" /\ metaFile.st # "partial"

\* C1: whatever add_precedent, save_index, load_or_create_faiss and clear calls
\* came before, failed ones included, the index load_or_create_faiss returns
\* holds as many vectors as the metadata list returned with it has entries.
C1_LoadedSizesAgree ==
    /\ LoadedResponse => last.ntotal = Len(last.recs)
    /\ \A p \in Procs :
         pc[p] = "save_open_index" => Len(loc[p].vecs) = Len(loc[p].recs)

\* C2: when an add_precedent handler ends, by returning, by a failed write or
\* by the death of its process, and no other handler is running, neither file
\* is half-written and the persisted index holds as many vectors as the
\* persisted metadata list has entries.
C2_AddIsOneTransaction ==
    [][\A p \in Workers :
         ( /\ pc[p] \in SavePcs
           /\ pc'[p] = "idle"
           /\ \A q \in Procs \ {p} : pc[q] = "idle" )
         => ( /\ FilesWhole'
              /\ Persisted(indexFile') = Persisted(metaFile') )]_vars

\* C3: once two add_precedent requests have both returned 200 (and no clear
\* ran since) and no handler is running, the persisted list holds both records
\* and the persisted index and list hold at least as many entries as adds were
\* acknowledged.
C3_NoLostUpdate ==
    ( /\ \A p \in Procs : pc[p] = "idle"
      /\ Len(acked) >= 2 )
    => ( /\ metaFile.st = "ok"
         /\ indexFile.st = "ok"
         /\ \A i \in 1..Len(acked) :
              \E j \in 1..Len(metaFile.data) : metaFile.data[j] = acked[i]
         /\ Len(metaFile.data) >= Len(acked)
         /\ Len(indexFile.data) >= Len(acked) )

\* all but the last element
Front(q) == SubSeq(q, 1, Len(q) - 1)

\* C4: a reader that finishes load_or_create_faiss while a worker is inside
\* save_index for an add got either the complete state from before that add or
\* the complete state after it.
C4_PersistAtomicForReaders ==
    \A w \in Workers :
        ( LoadedResponse /\ pc[w] \in SavePcs )
        => \/ ( /\ last.ntotal = Len(loc[w].vecs)
                /\ last.recs = loc[w].recs )
           \/ ( /\ last.ntotal = Len(Front(loc[w].vecs))
                /\ last.recs = Front(loc[w].recs) )

\* C5: every record whose add_precedent returned 200 since the last clear is in
\* the metadata list any later load_or_create_faiss returns, with the same id
\* and text.
C5_AckedRecordPersists ==
    LoadedResponse =>
        \A i \in 1..Len(acked) :
            \E j \in 1..Len(last.recs) : last.recs[j] = acked[i]

\* the request answered by response r fails validation: /embed, /add_precedent
\* without text, /analyze without text or with top_k outside 1..100
InvalidRequest(r) ==
    \/ r.kind \in {"embed", "add", "analyze"} /\ r.text = ""
    \/ r.kind = "analyze" /\ (r.k < 1 \/ r.k > 100)

\* C6: a request that fails validation is answered 400, whatever models are
\* loaded, before embedding or loading anything and with both files left as
\* they were; a top_k outside 1..100 is rejected, not clamped.
C6_ValidationBeforeWork ==
    [][InvalidRequest(last') =>
         ( /\ last'.status = 400
           /\ last'.did = {}
           /\ last'.precs = << >>
           /\ indexFile' = indexFile
           /\ metaFile' = metaFile )]_vars

\* a top_k of 101 was answered 400 by a service whose models are not loaded
C6_Witness ==
    /\ last.kind = "analyze"
    /\ last.k = 101
    /\ last.text # ""
    /\ last.status = 400
    /\ ~EncoderReady(models[Service])

\* a valid request to /embed, /analyze or /add_precedent was answered
ValidResponse ==
    /\ last.kind \in {"embed", "add", "analyze"}
    /\ ~InvalidRequest(last)

\* C7: a valid request to /embed, /analyze or /add_precedent is answered 200
\* when the models are loaded (500 only for an add whose save failed) and 503
\* when they are not.
C7_Status200Or503 ==
    ValidResponse =>
        IF EncoderReady(models[Service])
        THEN last.status = 200 \/ (last.kind = "add" /\ last.status = 500)
        ELSE last.status = 503

C9_CountIsMinKSize ==
    ( /\ last.kind \in {"analyze", "hanalyze"}
      /\ "load" \in last.did )
    => Len(last.precs) = Min(last.k, last.ntotal)

\* C10: the precedents of a search are in order of non-decreasing distance and
\* of non-increasing similarity_score.
C10_ClosestFirst ==
    last.kind \in {"analyze", "hanalyze"} =>
        \A i, j \in 1..Len(last.precs) :
            i < j => /\ last.precs[i].distance <= last.precs[j].distance
                     /\ ScoreGeq(last.precs[i].similarity_score,
                                 last.precs[j].similarity_score)

\* a search returned two precedents at different distances, the nearer one
\* stored after the farther one
C10_Witness ==
    /\ last.kind \in {"analyze", "hanalyze"}
    /\ Len(last.precs) = 2
    /\ last.precs[1].distance < last.precs[2].distance
    /\ last.precs[1].idx > last.precs[2].idx
    /\ last.precs[2].idx >= 0
\* no file of the index is persisted
NoFiles == ~Exists(indexFile) /\ ~Exists(metaFile)

\* C11 as stated: with no persisted files, the service answers every /analyze
\* with a text and top_k >= 1 with 200, no precedents and
\* total_precedents_in_db = 0, and the helper returns no precedents.
C11_EmptySearchAnyK ==
    NoFiles =>
        /\ ( last.kind = "analyze" /\ last.text # "" /\ last.k >= 1 )
           => last.status = 200 /\ last.precs = << >> /\ last.total = 0
        /\ last.kind = "hanalyze" => last.precs = << >>

\* C11: with no persisted files (none written yet, or removed by a clear), the
\* service answers every /analyze with a text and top_k in 1..100 with 200, no
\* precedents and total_precedents_in_db = 0, after loading the index; a top_k
\* above 100 is answered 400.  The helper returns no precedents for any k >= 1.
C11_EmptySearchValidK ==
    NoFiles =>
        /\ ( last.kind = "analyze" /\ last.text # "" /\ last.k >= 1 )
           => IF last.k <= 100
              THEN /\ last.status = 200
                   /\ "load" \in last.did
                   /\ last.precs = << >>
                   /\ last.total = 0
              ELSE last.status = 400
        /\ last.kind = "hanalyze" => last.precs = << >>

\* with no file persisted, /analyze with top_k = 3 answered 200 without
\* precedents
C11_Witness ==
    /\ NoFiles
    /\ last.kind = "analyze"
    /\ last.k = 3
    /\ last.status = 200
    /\ last.precs = << >>
    /\ last.total = 0
\* C12: with requests handled one at a time, an add_precedent that returns 200
\* on an index holding n precedents (the n adds acknowledged since the last
\* clear) returns total = n + 1 and, as case_id, the id of the request (a
\* generated one when the request has none), and the persisted list ends with
\* the record {id: case_id, text: text}.
C12_AddReturnsNewTotal ==
    ( last.kind = "add" /\ last.status = 200 ) =>
        /\ last.total = Len(acked)
        /\ metaFile = FileOf(last.recs)
        /\ last.recs[Len(last.recs)] = [id |-> last.case_id, text |-> last.text]
        /\ last.case_id # NoId
        /\ last.id # NoId => last.case_id = last.id
\* C13: after exactly one add_precedent, which returned 200 with id X, on an
\* empty index (and no clear since), /analyze with top_k = 1 and any text
\* answers with exactly one precedent, whose case_id is X and whose distance is
\* not negative.
C13_OneAddOneHit ==
    ( /\ last.kind = "analyze"
      /\ last.status = 200
      /\ last.k = 1
      /\ nAdds = 1
      /\ Len(acked) = 1 )
    => /\ Len(last.precs) = 1
       /\ last.precs[1].case_id = acked[1].id
       /\ last.precs[1].distance >= 0
       /\ last.total = 1

\* the precedent "ta" was added with id "p1"; a search for "tb" with top_k = 1
\* returned it at a positive distance
C13_Witness ==
    /\ last.kind = "analyze"
    /\ last.status = 200
    /\ last.k = 1
    /\ last.text = "tb"
    /\ nAdds = 1
    /\ acked = << [id |-> "p1", text |-> "ta"] >>
    /\ Len(last.precs) = 1
    /\ last.precs[1].case_id = "p1"
    /\ last.precs[1].distance > 0
\* C14: no two entries of the persisted metadata list have the same id, whether
\* the ids were supplied by the callers or generated.
C14_IdsUnique ==
    metaFile.st = "ok" =>
        \A i, j \in 1..Len(metaFile.data) :
            i # j => metaFile.data[i].id # metaFile.data[j].id
\* C15: with requests handled one at a time, when /precedents/clear returns 200
\* neither file exists, whichever of them existed before; meta.json comes back
\* only through an add_precedent that returns 200; and as long as it is not
\* back, every load_or_create_faiss (of /precedents/count, /analyze) returns
\* the empty index with 0 precedents.
C15_ClearEmptiesUntilAdd ==
    [][ /\ ( last'.kind = "clear" /\ last'.status = 200 ) => NoFiles'
        /\ ( metaFile.st # "ok" /\ metaFile'.st = "ok" )
           => ( last'.kind = "add" /\ last'.status = 200 )
        /\ ( LoadedResponse' /\ metaFile'.st # "ok" )
           => /\ last'.ntotal = 0
              /\ last'.recs = << >>
              /\ last'.total = 0
              /\ last'.precs = << >> ]_vars

\* a clear returned 200 after removing meta.json alone, precedent.index being
\* absent already
C15_Witness ==
    /\ last.kind = "clear"
    /\ last.status = 200
    /\ last.did = {"remove_meta"}
    /\ NoFiles
\* the handler of process p has left load_or_create_faiss in this step with the
\* index of n vectors and the metadata list recs (add_precedent has appended
\* its record to both by then)
Loaded(p, n, recs) ==
    IF pc'[p] = "save_open_index"
    THEN /\ Len(loc'[p].vecs) = n + 1
         /\ Front(loc'[p].recs) = recs
    ELSE /\ pc'[p] = "idle"
         /\ last'.status \in {0, 200}
         /\ "load" \in last'.did
         /\ last'.ntotal = n
         /\ last'.recs = recs

\* process p dies in this step
Dies(p) == pc[p] # "idle" /\ pc'[p] = "idle" /\ last' = NoResp

\* C16: load_or_create_faiss, in the service and in the helper, always returns
\* to its caller: with both files readable it returns the index and the list
\* read; when a file is absent or the index or the list cannot be parsed, it
\* returns the empty index together with the empty list.
C16_LoadNeverFails ==
    [][\A p \in Procs :
         /\ ( pc[p] = "load_index" /\ pc'[p] # "load_index" /\ ~Dies(p) )
            => IF Exists(indexFile) /\ Exists(metaFile) /\ indexFile.st = "ok"
               THEN pc'[p] = "load_meta" /\ loc'[p].vecs = indexFile.data
               ELSE Loaded(p, 0, << >>)
         /\ ( pc[p] = "load_meta" /\ pc'[p] # "load_meta" /\ ~Dies(p) )
            => IF metaFile.st = "ok"
               THEN Loaded(p, Len(loc[p].vecs), metaFile.data)
               ELSE Loaded(p, 0, << >>)]_vars

\* the helper read a complete precedent.index and then found meta.json
\* half-written: it returned the empty index and list
C16_Witness ==
    /\ last.kind = "hanalyze"
    /\ "load" \in last.did
    /\ indexFile.st = "ok"
    /\ Len(indexFile.data) > 0
    /\ metaFile.st = "partial"
    /\ last.ntotal = 0
    /\ last.recs = << >>
\* the mentions of one kind in the files of the request, in file order
Mentions(kind) == all_entities(agg.files, kind)

\* the merged list of one kind in the returned record
Merged(kind) == agg.result.entities[kind]

\* the place of the first mention with a key
FirstAt(list, key) ==
    CHOOSE i \in 1 .. Len(list) :
        /\ EntityKey(list[i]) = key
        /\ \A j \in 1 .. i - 1 : EntityKey(list[j]) # key

\* the merged list holds the first mention of each of its names, in the order
\* of these first mentions, and no name twice
FirstSeenWins(kind) ==
    /\ \A j \in 1 .. Len(Merged(kind)) :
           /\ \E i \in 1 .. Len(Mentions(kind)) :
                  EntityKey(Mentions(kind)[i]) = EntityKey(Merged(kind)[j])
           /\ Merged(kind)[j] =
                  Mentions(kind)[FirstAt(Mentions(kind), EntityKey(Merged(kind)[j]))]
    /\ \A j1, j2 \in 1 .. Len(Merged(kind)) :
           j1 < j2 => FirstAt(Mentions(kind), EntityKey(Merged(kind)[j1]))
                          < FirstAt(Mentions(kind), EntityKey(Merged(kind)[j2]))

\* C17 as stated: for each entity kind the merged list holds exactly one record
\* for every lowercased name that occurs in the mentions of that kind, the
\* first-seen one, in first-occurrence order. A mention whose name is empty
\* has no record in the merged list.
C17_OneRecordPerName ==
    agg.result.status = 200 =>
        \A kind \in EntityKinds :
            /\ FirstSeenWins(kind)
            /\ \A i \in 1 .. Len(Mentions(kind)) :
                   \E j \in 1 .. Len(Merged(kind)) :
                       EntityKey(Merged(kind)[j]) = EntityKey(Mentions(kind)[i])

\* C17, amended: for each entity kind the merged list holds exactly one record
\* for every non-empty lowercased name that occurs in the mentions of that
\* kind, the first-seen one, in first-occurrence order; mentions with an empty
\* name are dropped.
C17_OneRecordPerNonEmptyName ==
    agg.result.status = 200 =>
        \A kind \in EntityKinds :
            /\ FirstSeenWins(kind)
            /\ \A i \in 1 .. Len(Mentions(kind)) :
                   IF EntityKey(Mentions(kind)[i]) = ""
                   THEN \A j \in 1 .. Len(Merged(kind)) : EntityKey(Merged(kind)[j]) # ""
                   ELSE \E j \in 1 .. Len(Merged(kind)) :
                            EntityKey(Merged(kind)[j]) = EntityKey(Mentions(kind)[i])

\* "John Smith" (witness) in one file and "john smith" (defendant) in the next
\* were merged into the first mention
C17_Witness ==
    /\ agg.result.status = 200
    /\ Mentions("people") =
           << [form |-> "dict", name |-> "John Smith", role |-> "witness"],
              [form |-> "dict", name |-> "john smith", role |-> "defendant"] >>
    /\ Merged("people") = << [form |-> "dict", name |-> "John Smith", role |-> "witness"] >>
\* C18: the entity loop run over a merged list that the entity loop produced
\* returns that list: the same records in the same order, for every kind.
C18_DedupIdempotent ==
    agg.redone => \A kind \in EntityKinds : agg.again[kind] = Merged(kind)

\* the loop ran again over a merged list of two records that came out of two
\* mentions with different names
C18_Witness ==
    /\ agg.redone
    /\ \E kind \in EntityKinds :
           /\ Len(Merged(kind)) = 2
           /\ Merged(kind) = Mentions(kind)
           /\ agg.again[kind] = Merged(kind)
\* the stored text of the precedent an entry was made from
StoredText(prec) == PyItem(CaseMeta, prec.idx).text

\* the entry stands for a precedent found by a search of the request
StandsFor(entry, prec) ==
    entry.case_id = prec.case_id /\ StoredText(entry) = StoredText(prec)

\* two found precedents that the claim keeps apart: different non-empty ids, or
\* no id and different text
KeptApart(p1, p2) ==
    \/ p1.case_id # "" /\ p2.case_id # "" /\ p1.case_id # p2.case_id
    \/ p1.case_id = "" /\ p2.case_id = "" /\ StoredText(p1) # StoredText(p2)

\* C19: in the aggregated precedents no two entries share a non-empty case_id,
\* two id-less precedents with the same text are one entry, and two precedents
\* with different non-empty ids, or without id and with different text, are two
\* entries.
C19_PrecedentKeys ==
    agg.result.status = 200 =>
        LET found == all_precedents(agg.files)
            out == agg.result.precedents
        IN  /\ \A j1, j2 \in 1 .. Len(out) :
                   ( j1 # j2 /\ out[j1].case_id # "" ) => out[j1].case_id # out[j2].case_id
            /\ \A i1, i2 \in 1 .. Len(found) :
                   ( /\ i1 # i2
                     /\ found[i1].case_id = "" /\ found[i2].case_id = ""
                     /\ StoredText(found[i1]) = StoredText(found[i2]) )
                   => Cardinality({ j \in 1 .. Len(out) : StandsFor(out[j], found[i1]) }) = 1
            /\ \A i1, i2 \in 1 .. Len(found) :
                   KeptApart(found[i1], found[i2])
                   => \E j1, j2 \in 1 .. Len(out) :
                          /\ j1 # j2
                          /\ StandsFor(out[j1], found[i1])
                          /\ StandsFor(out[j2], found[i2])
\* C20: every record analyze_case returns has at least one key fact and at
\* least one legal issue, also when every file failed or gave no fact or
\* issue; with no fact found the only fact is the placeholder that names the
\* number of files, with no issue found the only issue is the placeholder issue.
C20_NeverEmpty ==
    agg.result.status = 200 =>
        /\ Len(agg.result.key_facts) >= 1
        /\ Len(agg.result.legal_issues_identified) >= 1
        /\ ( \A i \in 1 .. Len(agg.files) :
                 agg.files[i].failed \/ \A j \in 1 .. Len(agg.files[i].key_facts) :
                                            agg.files[i].key_facts[j] = "" )
           => agg.result.key_facts =
                  << "Evidence files processed: " \o ToString(Len(agg.files)) \o " files" >>
        /\ ( \A i \in 1 .. Len(agg.files) :
                 agg.files[i].failed \/ \A j \in 1 .. Len(agg.files[i].legal_issues) :
                                            agg.files[i].legal_issues[j] = "" )
           => agg.result.legal_issues_identified = << "Case evidence analysis" >>

\* a record was returned for a request whose files all failed
C20_Witness ==
    /\ agg.result.status = 200
    /\ Len(agg.files) = MaxFiles
    /\ \A i \in 1 .. Len(agg.files) : agg.files[i].failed
    /\ Len(agg.result.key_facts) = 1
    /\ Len(agg.result.legal_issues_identified) = 1
\* the files of the request that did not fail
GoodFiles == SelectSeq(agg.files, LAMBDA f : ~ f.failed)

\* C21: a request with at least one file is answered with a case record whose
\* evidence_analysis.files has one entry per file in submission order, the
\* entry of a failing file being an error marker with processed = false, and
\* whose aggregated lists are those of the files that did not fail.
C21_BadDocumentNeverAborts ==
    ( agg.result.status # 0 /\ agg.files # << >> ) =>
        /\ agg.result.status = 200
        /\ Len(agg.result.files) = Len(agg.files)
        /\ \A i \in 1 .. Len(agg.files) :
               IF agg.files[i].failed
               THEN agg.result.files[i].error /\ ~ agg.result.files[i].processed
               ELSE agg.result.files[i].analysis = agg.files[i]
        /\ agg.result.key_facts # << PlaceholderFact(Len(agg.files)) >>
               => agg.result.key_facts = all_key_facts(GoodFiles)
        /\ \A k \in EntityKinds :
               agg.result.entities[k] = DedupEntities(all_entities(GoodFiles, k))
        /\ agg.result.total_precedents = Len(unique_precedents(agg.seed, GoodFiles))
\* the documents of the request whose processing did not raise
ReadDocs == SelectSeq(agg.docs, LAMBDA d : d.path # "raises")

\* the facts and the issues of documents, joined in arrival order
RECURSIVE JoinedFacts(_)
JoinedFacts(docs) ==
    IF docs = << >> THEN << >> ELSE DocFacts(Head(docs)) \o JoinedFacts(Tail(docs))

RECURSIVE JoinedIssues(_)
JoinedIssues(docs) ==
    IF docs = << >> THEN << >> ELSE DocIssues(Head(docs)) \o JoinedIssues(Tail(docs))

\* C22: the facts and the issues of the documents are joined in arrival order
\* without dedup and cut at case level only: unless the placeholder stands in
\* for an empty list, key_facts is the first 20 of the joined facts and
\* legal_issues_identified the first 10 of the joined issues.
C22_ConcatenatedThenCapped ==
    ( agg.result.status = 200 /\ agg.docs # << >> ) =>
        /\ JoinedFacts(ReadDocs) # << >>
               => agg.result.key_facts = Take(JoinedFacts(ReadDocs), 20)
        /\ JoinedIssues(ReadDocs) # << >>
               => agg.result.legal_issues_identified = Take(JoinedIssues(ReadDocs), 10)
\* C23: add_precedent answers 200 only in the step that completes the second
\* write of save_index, after the index file was written whole, and the
\* metadata file then holds the list the response counts; a handler that
\* leaves save_index in any other way answers 500, never 200.
C23_PersistFailureSurfaced ==
    [][ \A p \in Workers :
          ( pc[p] \in SavePcs /\ pc'[p] = "idle" /\ last'.kind = "add" )
          => /\ last'.status \in {200, 500}
             /\ last'.status = 200
                   => /\ pc[p] = "save_write_meta"
                      /\ {"write_index", "write_meta"} \subseteq last'.did
                      /\ metaFile' = FileOf(last'.recs)
                      /\ last'.total = Len(last'.recs)
             /\ last'.status = 500
                   => /\ indexFile' = indexFile
                      /\ metaFile' = metaFile ]_vars

\* the write of meta.json failed after precedent.index was written whole, and
\* the add was answered 500
C23_Witness ==
    /\ last.kind = "add"
    /\ last.status = 500
    /\ indexFile.st = "ok"
    /\ metaFile = Partial
\* the timeline events of the request's files in arrival order
Arrived == all_timeline(agg.files)

\* the place of the i-th of the events among all of them by date, equal dates
\* in arrival order
DatePlace(events, i) ==
    1 + Cardinality({ j \in 1 .. Len(events) :
                        \/ StrLess(events[j].date, events[i].date)
                        \/ events[j].date = events[i].date /\ j < i })

\* C24: the returned timeline holds the events of all files sorted ascending by
\* date string (an empty date first), equal dates in arrival order, cut to the
\* first 20 after the sort: the event whose place by date is n <= 20 is the
\* n-th returned event, and nothing else is returned.
C24_TimelineSortedThenCapped ==
    agg.result.status = 200 =>
        LET events == Arrived
        IN  /\ Len(agg.result.timeline) = Min(20, Len(events))
            /\ \A i \in 1 .. Len(events) :
                   DatePlace(events, i) <= 20
                   => agg.result.timeline[DatePlace(events, i)] = events[i]

\* more than 20 events arrived, an event that arrived after the 20th is
\* returned, and two returned events have the same date
C24_Witness ==
    /\ agg.result.status = 200
    /\ Len(Arrived) > 20
    /\ \E i \in 21 .. Len(Arrived) : DatePlace(Arrived, i) <= 20
    /\ \E m, n \in 1 .. Len(agg.result.timeline) :
           m < n /\ agg.result.timeline[m].date = agg.result.timeline[n].date
    /\ agg.result.timeline[1].date = << >>
\* the precedents found for the request's files in arrival order
Found == all_precedents(agg.files)

\* the entry is the first found with its case_id
FirstFound(found, entry) ==
    \E i \in 1 .. Len(found) :
        /\ found[i] = entry
        /\ \A j \in 1 .. i - 1 : found[j].case_id # entry.case_id

\* C25: the returned precedents are unique precedents in non-increasing order of
\* similarity_score, none of the unique precedents left out scores higher than
\* a returned one, their number is min(10, total_precedents), and
\* total_precedents is the number of unique precedents found.
C25_RankedThenCapped ==
    ( agg.result.status = 200 /\ \A i \in 1 .. Len(Found) : Found[i].case_id # "" ) =>
        LET found == Found
            out == agg.result.precedents
        IN  /\ agg.result.total_precedents =
                   Cardinality({ found[i].case_id : i \in 1 .. Len(found) })
            /\ Len(out) = Min(10, agg.result.total_precedents)
            /\ \A m \in 1 .. Len(out) : FirstFound(found, out[m])
            /\ \A m, n \in 1 .. Len(out) :
                   m < n => /\ ScoreGeq(out[m].similarity_score, out[n].similarity_score)
                            /\ out[m].case_id # out[n].case_id
            /\ \A i \in 1 .. Len(found) :
                   ( \A m \in 1 .. Len(out) : out[m].case_id # found[i].case_id )
                   => /\ Len(out) = 10
                      /\ FirstFound(found, found[i])
                            => \A m \in 1 .. Len(out) :
                                   ScoreGeq(out[m].similarity_score, found[i].similarity_score)

\* three documents found eleven different precedents, some of them twice; ten
\* are returned
C25_Witness ==
    /\ agg.result.status = 200
    /\ Len(Found) = 3 * DocTopK
    /\ agg.result.total_precedents = 11
    /\ Len(agg.result.precedents) = 10
\* C26: the displayed text of a hit is the stored text of the hit's own entry
\* when that has at most 150 characters, and otherwise its first 150 characters
\* followed by "..."; it is never longer than 153 characters. The displayed
\* texts of the named texts of the other specifications are formed the same way.
C26_DisplayedText ==
    /\ shown.done =>
          LET stored == shown.meta[shown.idx + 1]
          IN  /\ Len(shown.displayed) <= 153
              /\ Len(stored) <= 150 => shown.displayed = stored
              /\ Len(stored) > 150
                    => /\ Len(shown.displayed) = 153
                       /\ \A i \in 1 .. 150 : shown.displayed[i] = stored[i]
                       /\ \A i \in 151 .. 153 : shown.displayed[i] = "."
    /\ \A t \in Texts \cup LongTexts : Chars(DisplayText(t)) = DisplayChars(Chars(t))

\* a stored text of 151 characters was displayed in 153, and not the other
\* entry's text
C26_Witness ==
    /\ shown.done
    /\ Len(shown.meta[shown.idx + 1]) = 151
    /\ Len(shown.displayed) = 153
    /\ Len(shown.meta[2 - shown.idx]) = 1
\* C27: every precedent a search returns stands for a vector that is in the
\* loaded index and was matched: its position is one of the index's, its
\* distance is the distance of that vector, and its id and text are those of
\* the metadata entry at that position.
C27_NoFabricatedHit ==
    ( last.kind \in {"analyze", "hanalyze"} /\ last.status = 200 ) =>
        \A i \in 1 .. Len(last.precs) :
            LET e == last.precs[i]
            IN  /\ e.idx >= 0
                /\ e.idx < last.ntotal
                /\ e.idx < Len(last.recs)
                /\ e.distance # MissingDist
                /\ e.case_id = last.recs[e.idx + 1].id
                /\ e.text = DisplayText(last.recs[e.idx + 1].text)
\* C28: read operations leave the persisted index unchanged.  No step of
\* /analyze, /embed, /precedents/count, /health or of the helper's search
\* creates, rewrites or deletes precedent.index or meta.json, whatever the
\* directory holds, also when the load fails and the empty index is used.
C28_ReadsLeaveFilesUnchanged ==
    [][ indexFile' = indexFile /\ metaFile' = metaFile ]_vars

\* a read was answered from the substituted empty index while an unreadable
\* index file and a non-empty metadata file stay in place
C28_Witness ==
    /\ last.kind \in {"analyze", "count", "hanalyze"}
    /\ "load" \in last.did
    /\ last.recs = << >>
    /\ indexFile = Partial
    /\ metaFile.st = "ok"
    /\ metaFile.data # << >>
\* C29: model readiness is reported truthfully across repeated initialization.
\* Whenever initialize_models has returned True, or analyze_with_inlegalbert
\* has reported inlegalbert_available = True, the helper's embedding model is
\* loaded, so that embed_text can return a vector.
C29_ReadinessTruthful ==
    ( last.kind \in {"init", "hanalyze"} /\ last.avail ) => models[Helper].emb
\* C30: feedback never changes the submitted original_document.  After any
\* sequence of submit_feedback calls, the original_document of a case that was
\* submitted for review, the lists inside it included, equals the document
\* that was passed to submit_for_review.
C30_OriginalUnchanged ==
    \A c \in CaseIds :
        case_documents[c].reviewed =>
            Deep(case_documents[c].original_document, heap[c]) = case_documents[c].submitted
====
